---- MODULE Spec2Model ----
(***************************************************************************)
(* Session controller, acquisition loop, broadcast bus and logging         *)
(* consumer of envsensor-demo (src/src/sensor.rs), with the caller of      *)
(* src/src/bin/egui_demo.rs.                                               *)
(*                                                                         *)
(* One Sensor handle is modelled.  Every start() call on it spawns one     *)
(* acquisition thread ("session" s) that owns the Bus passed to start();   *)
(* the acquisition thread spawns the logger thread of the session.  The    *)
(* handle's own BusReader and a second, independent BusReader are taken    *)
(* from the first bus before start() (egui_demo.rs:124-134).               *)
(***************************************************************************)
EXTENDS Integers, Sequences, FiniteSets, TLC

(* ---------------------------- bounds ---------------------------------- *)
MaxStarts == 2        \* start() calls made on the one handle
MaxReads == 2         \* read calls per session that may return Ok
BusLen == 2           \* the len given to Bus::new by the caller

Sessions == 1..MaxStarts

(* ------------------------- data model --------------------------------- *)
SensorModel == {"EC_TB600BC", "RYDASON"}

\* number of SensorData entries of one sample
NumChannels(m) == IF m = "EC_TB600BC" THEN 2 ELSE 1

Status(text) == [kind |-> "Status", text |-> text, id |-> 0, n |-> 0]

Sample(id, n) == [kind |-> "Sample", text |-> "", id |-> id, n |-> n]

InitText(m) == IF m = "EC_TB600BC" THEN "TB600BC init" ELSE "Rydason init"

CreateFailText(m) ==
    IF m = "EC_TB600BC" THEN "Failed to create TB600BC sensor"
                        ELSE "Failed to create Rydason sensor"

SwitchText == "TB600BC switch to auto report"

SwitchFailText == "Failed to switch to auto report mode"

ReadFailText == "Failed to read auto report data"

ErrorTexts ==
    {CreateFailText(m) : m \in SensorModel} \cup {SwitchFailText, ReadFailText}

VARIABLES
    hw,          \* Sensor.hw
    flag,        \* Sensor.flag, the shared AtomicBool
    started,     \* number of start() calls so far
    procAlive,   \* FALSE once std::process::exit ran
    acqPc,       \* per session: position of the acquisition thread
    pending,     \* per session: the message the thread is about to broadcast
    reads,       \* per session: number of read calls made
    readFailed,  \* per session: a read call returned Err
    initErr,     \* per session: which construction/initialisation step failed
    pub,         \* per session: every message broadcast on the bus, in order
    closed,      \* per session: the Bus was dropped
    logPc,       \* per session: position of the logger thread
    logJoin,     \* per session: length of pub when the logger's reader was added
    logHead,     \* per session: cursor of the logger's BusReader
    csv,         \* per session: lines of the CSV file
    rxHead,      \* cursor of Sensor.rx (a reader of bus 1)
    rxGot,       \* messages try_recv returned, in order
    rx2Head,     \* cursor of the second reader of bus 1
    rx2Got,      \* messages the second reader received, in order
    stopSeen,    \* per session: stop() was called after the session was spawned
    afterStop,   \* per session: samples broadcast since the first such stop()
    drvPc,       \* driver under test: "off", "new", "ready", "failed", ..
    drvType,     \* driver: the SensorType decoded at construction
    drvScale,    \* driver: the u32 scale field, as 16-bit halves
    drvChannels, \* driver: its channel list
    drvNewIo,    \* driver: the replies consumed by new(), in order
    drvIo,       \* driver: the last read call: reply bytes and decoded result
    drvSample    \* driver: the SensorData sequence built from the last read

pipeVars == <<hw, flag, started, procAlive, acqPc, pending, reads, readFailed,
              initErr, pub, closed, logPc, logJoin, logHead, csv, rxHead,
              rxGot, rx2Head, rx2Got, stopSeen, afterStop>>

drvVars == <<drvPc, drvType, drvScale, drvChannels, drvNewIo, drvIo, drvSample>>

vars == <<pipeVars, drvVars>>

callerVars == <<rxHead, rxGot, rx2Head, rx2Got>>
logVars == <<logPc, logJoin, logHead, csv>>
histVars == <<stopSeen, afterStop>>

NoMsg == Status("")

PipeInit ==
    /\ hw \in SensorModel
    /\ flag = FALSE
    /\ started = 0
    /\ procAlive = TRUE
    /\ acqPc = [s \in Sessions |-> "idle"]
    /\ pending = [s \in Sessions |-> NoMsg]
    /\ reads = [s \in Sessions |-> 0]
    /\ readFailed = [s \in Sessions |-> FALSE]
    /\ initErr = [s \in Sessions |-> "none"]
    /\ pub = [s \in Sessions |-> <<>>]
    /\ closed = [s \in Sessions |-> FALSE]
    /\ logPc = [s \in Sessions |-> "none"]
    /\ logJoin = [s \in Sessions |-> 0]
    /\ logHead = [s \in Sessions |-> 0]
    /\ csv = [s \in Sessions |-> <<>>]
    /\ rxHead = 0
    /\ rxGot = <<>>
    /\ rx2Head = 0
    /\ rx2Got = <<>>
    /\ stopSeen = [s \in Sessions |-> FALSE]
    /\ afterStop = [s \in Sessions |-> 0]

U32(hi, lo) == [hi |-> hi, lo |-> lo]

NoIo == [op |-> "none", bytes |-> <<>>, ok |-> FALSE, val |-> <<>>]

DrvIdle(pc) ==
    /\ drvPc = pc
    /\ drvType = "none"
    /\ drvScale = U32(0, 0)
    /\ drvChannels = <<>>
    /\ drvNewIo = <<>>
    /\ drvIo = NoIo
    /\ drvSample = <<>>

\* the pipeline, with no driver under test
Init == PipeInit /\ DrvIdle("off")

(* ------------------------------ bus ----------------------------------- *)
\* the logger's BusReader exists from add_rx until its thread returns
LogReaderLive(s) == logPc[s] \in {"create", "check", "recv"}

\* cursors of the readers the bus of session s still counts
ReaderHeads(s) ==
    (IF s = 1 THEN {rxHead, rx2Head} ELSE {})
        \cup (IF LogReaderLive(s) THEN {logHead[s]} ELSE {})

\* a broadcast that never waits for room
CanBroadcastAlways(s) == TRUE

\* Bus::broadcast blocks while the slowest reader is BusLen messages behind
CanBroadcast(s) == \A h \in ReaderHeads(s) : Len(pub[s]) - h < BusLen

Broadcast(s, msg) ==
    /\ CanBroadcast(s)
    /\ pub' = [pub EXCEPT ![s] = Append(@, msg)]

\* a reader that loses what is pending once the Bus is dropped
HasMsgWhileOpen(s, h) == h < Len(pub[s]) /\ ~closed[s]

\* BusReader::recv / try_recv: a message is pending for a reader at cursor h
HasMsg(s, h) == h < Len(pub[s])

SkippingRecvMsg(s, h) == pub[s][Len(pub[s])]

RecvMsg(s, h) == pub[s][h + 1]

(* ---------------------------- caller ---------------------------------- *)
\* Sensor::start: no check of a running session; resets the flag, spawns
Start ==
    /\ procAlive
    /\ started < MaxStarts
    /\ started' = started + 1
    /\ flag' = FALSE
    /\ acqPc' = [acqPc EXCEPT ![started + 1] = "new"]
    /\ UNCHANGED <<hw, procAlive, pending, reads, readFailed, initErr, pub,
                   closed, logVars, callerVars, histVars>>
    /\ UNCHANGED drvVars

\* a stop() that joins the worker threads before it returns
StopJoiningWorkers ==
    /\ procAlive
    /\ \A s \in Sessions : acqPc[s] \in {"idle", "done"}
                           /\ logPc[s] \in {"none", "done", "failed"}
    /\ flag' = TRUE
    /\ stopSeen' = [s \in Sessions |-> stopSeen[s] \/ acqPc[s] # "idle"]
    /\ UNCHANGED <<hw, started, procAlive, acqPc, pending, reads, readFailed,
                   initErr, pub, closed, logVars, callerVars, afterStop>>
    /\ UNCHANGED drvVars

\* Sensor::stop
Stop ==
    /\ procAlive
    /\ flag' = TRUE
    /\ stopSeen' = [s \in Sessions |-> stopSeen[s] \/ acqPc[s] # "idle"]
    /\ UNCHANGED <<hw, started, procAlive, acqPc, pending, reads, readFailed,
                   initErr, pub, closed, logVars, callerVars, afterStop>>
    /\ UNCHANGED drvVars

\* a try_recv that hands out everything that is pending
TryRecvDraining ==
    /\ procAlive
    /\ rxGot' = rxGot \o SubSeq(pub[1], rxHead + 1, Len(pub[1]))
    /\ rxHead' = Len(pub[1])
    /\ UNCHANGED <<hw, flag, started, procAlive, acqPc, pending, reads,
                   readFailed, initErr, pub, closed, logVars, rx2Head, rx2Got,
                   histVars>>
    /\ UNCHANGED drvVars

\* Sensor::try_recv: Some(msg) when one is pending, None otherwise
TryRecv ==
    /\ procAlive
    /\ IF HasMsg(1, rxHead)
         THEN /\ rxGot' = Append(rxGot, RecvMsg(1, rxHead))
              /\ rxHead' = rxHead + 1
         ELSE UNCHANGED <<rxHead, rxGot>>
    /\ UNCHANGED <<hw, flag, started, procAlive, acqPc, pending, reads,
                   readFailed, initErr, pub, closed, logVars, rx2Head, rx2Got,
                   histVars>>
    /\ UNCHANGED drvVars

\* the second subscriber of bus 1 receiving its next message
Rx2Recv ==
    /\ procAlive
    /\ HasMsg(1, rx2Head)
    /\ rx2Got' = Append(rx2Got, RecvMsg(1, rx2Head))
    /\ rx2Head' = rx2Head + 1
    /\ UNCHANGED <<hw, flag, started, procAlive, acqPc, pending, reads,
                   readFailed, initErr, pub, closed, logVars, rxHead, rxGot,
                   histVars>>
    /\ UNCHANGED drvVars

(* ----------------------- acquisition thread ---------------------------- *)
\* the spawned closure returns: its Bus is dropped
AcqExit(s) ==
    /\ acqPc' = [acqPc EXCEPT ![s] = "done"]
    /\ closed' = [closed EXCEPT ![s] = TRUE]

\* a construction that goes on without the "<model> init" status
AcqNewSkippingInit(s) ==
    /\ procAlive
    /\ acqPc[s] = "new"
    /\ acqPc' = [acqPc EXCEPT ![s] =
                    IF hw = "EC_TB600BC" THEN "switch" ELSE "start_log"]
    /\ UNCHANGED <<hw, flag, started, procAlive, pending, initErr, reads,
                   readFailed, pub, closed, logVars, callerVars, histVars>>
    /\ UNCHANGED drvVars

\* TB600BC::new / Rydason::new.  A port that cannot be opened ends the
\* process in TB600BC::new and is an Err in Rydason::new; a failed write,
\* read or decode of the parameter queries is an Err in both.
AcqNew(s) ==
    /\ procAlive
    /\ acqPc[s] = "new"
    /\ \E outcome \in {"ok", "open", "query"} :
         IF outcome = "ok"
           THEN /\ acqPc' = [acqPc EXCEPT ![s] = "bcast_init"]
                /\ pending' = [pending EXCEPT ![s] = Status(InitText(hw))]
                /\ UNCHANGED <<procAlive, initErr>>
           ELSE IF outcome = "open" /\ hw = "EC_TB600BC"
             THEN /\ procAlive' = FALSE
                  /\ initErr' = [initErr EXCEPT ![s] = "open"]
                  /\ UNCHANGED <<acqPc, pending>>
             ELSE /\ acqPc' = [acqPc EXCEPT ![s] = "bcast_err"]
                  /\ pending' = [pending EXCEPT ![s] = Status(CreateFailText(hw))]
                  /\ initErr' = [initErr EXCEPT ![s] = outcome]
                  /\ UNCHANGED procAlive
    /\ UNCHANGED <<hw, flag, started, reads, readFailed, pub, closed, logVars,
                   callerVars, histVars>>
    /\ UNCHANGED drvVars

\* bus.broadcast(Status("<model> init"))
AcqBroadcastInit(s) ==
    /\ procAlive
    /\ acqPc[s] = "bcast_init"
    /\ Broadcast(s, pending[s])
    /\ acqPc' = [acqPc EXCEPT ![s] =
                    IF hw = "EC_TB600BC" THEN "switch" ELSE "start_log"]
    /\ UNCHANGED <<hw, flag, started, procAlive, pending, reads, readFailed,
                   initErr, closed, logVars, callerVars, histVars>>
    /\ UNCHANGED drvVars

\* sensor.switch_mode(true) of the EC_TB600BC branch
AcqSwitchMode(s) ==
    /\ procAlive
    /\ acqPc[s] = "switch"
    /\ \E ok \in BOOLEAN :
         IF ok
           THEN /\ acqPc' = [acqPc EXCEPT ![s] = "bcast_switch"]
                /\ pending' = [pending EXCEPT ![s] = Status(SwitchText)]
                /\ UNCHANGED initErr
           ELSE /\ acqPc' = [acqPc EXCEPT ![s] = "bcast_err"]
                /\ pending' = [pending EXCEPT ![s] = Status(SwitchFailText)]
                /\ initErr' = [initErr EXCEPT ![s] = "switch"]
    /\ UNCHANGED <<hw, flag, started, procAlive, reads, readFailed, pub,
                   closed, logVars, callerVars, histVars>>
    /\ UNCHANGED drvVars

\* bus.broadcast(Status("TB600BC switch to auto report"))
AcqBroadcastSwitch(s) ==
    /\ procAlive
    /\ acqPc[s] = "bcast_switch"
    /\ Broadcast(s, pending[s])
    /\ acqPc' = [acqPc EXCEPT ![s] = "start_log"]
    /\ UNCHANGED <<hw, flag, started, procAlive, pending, reads, readFailed,
                   initErr, closed, logVars, callerVars, histVars>>
    /\ UNCHANGED drvVars

\* the start_log call skipped: the loop is entered with no logger subscribed
AcqStartLogSkipped(s) ==
    /\ procAlive
    /\ acqPc[s] = "start_log"
    /\ acqPc' = [acqPc EXCEPT ![s] = "check"]
    /\ UNCHANGED <<hw, flag, started, procAlive, pending, reads, readFailed,
                   initErr, pub, closed, logVars, callerVars, histVars>>
    /\ UNCHANGED drvVars

\* start_log(device, f, bus.add_rx(), ..): the reader joins at the current
\* tail of the bus and the logger thread is spawned
AcqStartLog(s) ==
    /\ procAlive
    /\ acqPc[s] = "start_log"
    /\ logPc' = [logPc EXCEPT ![s] = "create"]
    /\ logJoin' = [logJoin EXCEPT ![s] = Len(pub[s])]
    /\ logHead' = [logHead EXCEPT ![s] = Len(pub[s])]
    /\ acqPc' = [acqPc EXCEPT ![s] = "check"]
    /\ UNCHANGED <<hw, flag, started, procAlive, pending, reads, readFailed,
                   initErr, pub, closed, csv, callerVars, histVars>>
    /\ UNCHANGED drvVars

\* while !flag.load(SeqCst)
AcqCheckFlag(s) ==
    /\ procAlive
    /\ acqPc[s] = "check"
    /\ IF flag
         THEN AcqExit(s)
         ELSE /\ acqPc' = [acqPc EXCEPT ![s] = "read"]
              /\ UNCHANGED closed
    /\ UNCHANGED <<hw, flag, started, procAlive, pending, reads, readFailed,
                   initErr, pub, logVars, callerVars, histVars>>
    /\ UNCHANGED drvVars

\* a read error that goes back to the head of the loop instead of returning
AcqReadDataRetrying(s) ==
    /\ procAlive
    /\ acqPc[s] = "read"
    /\ reads' = [reads EXCEPT ![s] = @ + 1]
    /\ \E ok \in (IF reads[s] < MaxReads THEN BOOLEAN ELSE {FALSE}) :
         IF ok
           THEN /\ acqPc' = [acqPc EXCEPT ![s] = "bcast_sample"]
                /\ pending' = [pending EXCEPT ![s] =
                                  Sample(reads[s] + 1, NumChannels(hw))]
                /\ UNCHANGED readFailed
           ELSE /\ readFailed' = [readFailed EXCEPT ![s] = TRUE]
                /\ acqPc' = [acqPc EXCEPT ![s] =
                                IF reads[s] < MaxReads THEN "check" ELSE "done"]
                /\ UNCHANGED pending
    /\ closed' = [closed EXCEPT ![s] = (acqPc'[s] = "done")]
    /\ UNCHANGED <<hw, flag, started, procAlive, initErr, pub, logVars,
                   callerVars, histVars>>
    /\ UNCHANGED drvVars

\* sensor.read_auto_report_data() / sensor.read_measured_value(): Ok builds
\* the sample; Err is broadcast as a status by the EC_TB600BC branch and only
\* printed by the RYDASON branch, and `?` returns from the closure
AcqReadData(s) ==
    /\ procAlive
    /\ acqPc[s] = "read"
    /\ reads' = [reads EXCEPT ![s] = @ + 1]
    /\ \E ok \in (IF reads[s] < MaxReads THEN BOOLEAN ELSE {FALSE}) :
         IF ok
           THEN /\ acqPc' = [acqPc EXCEPT ![s] = "bcast_sample"]
                /\ pending' = [pending EXCEPT ![s] =
                                  Sample(reads[s] + 1, NumChannels(hw))]
                /\ UNCHANGED <<readFailed, closed>>
           ELSE /\ readFailed' = [readFailed EXCEPT ![s] = TRUE]
                /\ IF hw = "EC_TB600BC"
                     THEN /\ acqPc' = [acqPc EXCEPT ![s] = "bcast_err"]
                          /\ pending' = [pending EXCEPT ![s] = Status(ReadFailText)]
                          /\ UNCHANGED closed
                     ELSE /\ AcqExit(s)
                          /\ UNCHANGED pending
    /\ UNCHANGED <<hw, flag, started, procAlive, initErr, pub, logVars,
                   callerVars, histVars>>
    /\ UNCHANGED drvVars

\* bus.broadcast(Sample(..)) and, in the RYDASON branch, the 1 s sleep
AcqBroadcastSample(s) ==
    /\ procAlive
    /\ acqPc[s] = "bcast_sample"
    /\ Broadcast(s, pending[s])
    /\ acqPc' = [acqPc EXCEPT ![s] = "check"]
    /\ afterStop' = [afterStop EXCEPT ![s] = IF stopSeen[s] THEN @ + 1 ELSE @]
    /\ UNCHANGED <<hw, flag, started, procAlive, pending, reads, readFailed,
                   initErr, closed, logVars, callerVars, stopSeen>>
    /\ UNCHANGED drvVars

\* the broadcast inside inspect_err / map_err, then `?` returns
AcqBroadcastError(s) ==
    /\ procAlive
    /\ acqPc[s] = "bcast_err"
    /\ Broadcast(s, pending[s])
    /\ AcqExit(s)
    /\ UNCHANGED <<hw, flag, started, procAlive, pending, reads, readFailed,
                   initErr, logVars, callerVars, histVars>>
    /\ UNCHANGED drvVars

(* --------------------------- logger thread ---------------------------- *)
Header == [kind |-> "header", id |-> 0, n |-> NumChannels(hw)]

\* a row that leaves out the last value
ShortRow(msg) == [kind |-> "row", id |-> msg.id, n |-> msg.n - 1]

Row(msg) == [kind |-> "row", id |-> msg.id, n |-> msg.n]

\* File::create(filename)? and writeln!(csv, "{csv_head}")?
LogCreate(s) ==
    /\ procAlive
    /\ logPc[s] = "create"
    /\ \E ok \in BOOLEAN :
         IF ok
           THEN /\ csv' = [csv EXCEPT ![s] = <<Header>>]
                /\ logPc' = [logPc EXCEPT ![s] = "check"]
           ELSE /\ logPc' = [logPc EXCEPT ![s] = "failed"]
                /\ UNCHANGED csv
    /\ UNCHANGED <<hw, flag, started, procAlive, acqPc, pending, reads,
                   readFailed, initErr, pub, closed, logJoin, logHead,
                   callerVars, histVars>>
    /\ UNCHANGED drvVars

\* while !flag.load(SeqCst)
LogCheckFlag(s) ==
    /\ procAlive
    /\ logPc[s] = "check"
    /\ logPc' = [logPc EXCEPT ![s] = IF flag THEN "done" ELSE "recv"]
    /\ UNCHANGED <<hw, flag, started, procAlive, acqPc, pending, reads,
                   readFailed, initErr, pub, closed, logJoin, logHead, csv,
                   callerVars, histVars>>
    /\ UNCHANGED drvVars

\* a logger that writes a row for every message, status messages included
LogRecvLoggingStatus(s) ==
    /\ procAlive
    /\ logPc[s] = "recv"
    /\ IF HasMsg(s, logHead[s])
         THEN /\ logHead' = [logHead EXCEPT ![s] = @ + 1]
              /\ IF RecvMsg(s, logHead[s]).kind # "none"
                   THEN \E ok \in BOOLEAN :
                          IF ok
                            THEN /\ csv' = [csv EXCEPT ![s] =
                                      Append(@, Row(RecvMsg(s, logHead[s])))]
                                 /\ logPc' = [logPc EXCEPT ![s] = "check"]
                            ELSE /\ logPc' = [logPc EXCEPT ![s] = "failed"]
                                 /\ UNCHANGED csv
                   ELSE /\ logPc' = [logPc EXCEPT ![s] = "check"]
                        /\ UNCHANGED csv
         ELSE /\ closed[s]
              /\ logPc' = [logPc EXCEPT ![s] = "check"]
              /\ UNCHANGED <<logHead, csv>>
    /\ UNCHANGED <<hw, flag, started, procAlive, acqPc, pending, reads,
                   readFailed, initErr, pub, closed, logJoin, callerVars,
                   histVars>>
    /\ UNCHANGED drvVars

\* rx.recv(): blocks while nothing is pending and the Bus is alive; a Sample
\* is written and flushed, a Status or a RecvError goes back to the loop head
LogRecv(s) ==
    /\ procAlive
    /\ logPc[s] = "recv"
    /\ IF HasMsg(s, logHead[s])
         THEN /\ logHead' = [logHead EXCEPT ![s] = @ + 1]
              /\ IF RecvMsg(s, logHead[s]).kind = "Sample"
                   THEN \E ok \in BOOLEAN :
                          IF ok
                            THEN /\ csv' = [csv EXCEPT ![s] =
                                      Append(@, Row(RecvMsg(s, logHead[s])))]
                                 /\ logPc' = [logPc EXCEPT ![s] = "check"]
                            ELSE /\ logPc' = [logPc EXCEPT ![s] = "failed"]
                                 /\ UNCHANGED csv
                   ELSE /\ logPc' = [logPc EXCEPT ![s] = "check"]
                        /\ UNCHANGED csv
         ELSE /\ closed[s]
              /\ logPc' = [logPc EXCEPT ![s] = "check"]
              /\ UNCHANGED <<logHead, csv>>
    /\ UNCHANGED <<hw, flag, started, procAlive, acqPc, pending, reads,
                   readFailed, initErr, pub, closed, logJoin, callerVars,
                   histVars>>
    /\ UNCHANGED drvVars

(* --------------------------- specification ---------------------------- *)
AcqStep(s) ==
    \/ AcqNew(s)
    \/ AcqBroadcastInit(s)
    \/ AcqSwitchMode(s)
    \/ AcqBroadcastSwitch(s)
    \/ AcqStartLog(s)
    \/ AcqCheckFlag(s)
    \/ AcqReadData(s)
    \/ AcqBroadcastSample(s)
    \/ AcqBroadcastError(s)

LogStep(s) ==
    \/ LogCreate(s)
    \/ LogCheckFlag(s)
    \/ LogRecv(s)

\* start() on a handle that was never started
FirstStart == started = 0 /\ Start

\* one handle, started once; stop() and try_recv() at any time
Next ==
    \/ FirstStart
    \/ Stop
    \/ TryRecv
    \/ Rx2Recv
    \/ \E s \in Sessions : AcqStep(s)
    \/ \E s \in Sessions : LogStep(s)

Spec == Init /\ [][Next]_vars

\* every spawned thread that can take a step eventually takes one, and the
\* second reader is drained by a thread of its own; the caller of the handle
\* is under no obligation to call stop or try_recv
FairSpec ==
    /\ Spec
    /\ \A s \in Sessions : WF_vars(AcqStep(s)) /\ WF_vars(LogStep(s))
    /\ WF_vars(Rx2Recv)

\* the caller keeps polling: egui_demo.rs calls try_recv on every frame
PollSpec == Spec /\ WF_vars(TryRecv)

\* one handle, any sequence of start(), stop() and try_recv() calls
ApiNext ==
    \/ Start
    \/ Stop
    \/ TryRecv
    \/ Rx2Recv
    \/ \E s \in Sessions : AcqStep(s)
    \/ \E s \in Sessions : LogStep(s)

ApiSpec == Init /\ [][ApiNext]_vars

(* ---------------- device drivers: codecs (tb600b_c.rs, rydason.rs) ----- *)
(* Bytes are 0..255, frames are sequences of bytes.  A u32 is kept as its  *)
(* two 16-bit halves, so that every product stays exact.                   *)

BE16(b1, b2) == b1 * 256 + b2

LE16(b1, b2) == b2 * 256 + b1

\* bit w (a power of two) of x
Bit(x, w) == (x \div w) % 2

XorBit(a, b, w) == w * ((Bit(a, w) + Bit(b, w)) % 2)

\* exclusive or of two bytes
XorByte(a, b) ==
    XorBit(a, b, 1) + XorBit(a, b, 2) + XorBit(a, b, 4) + XorBit(a, b, 8)
    + XorBit(a, b, 16) + XorBit(a, b, 32) + XorBit(a, b, 64)
    + XorBit(a, b, 128)

Flip(x, w) == IF Bit(x, w) = 1 THEN x - w ELSE x + w

\* one step of the reflected CRC register: shift right, and exclusive or
\* with the polynomial A001 when a one was shifted out
CrcShift(c) ==
    IF c % 2 = 1 THEN Flip(Flip(Flip(c \div 2, 32768), 8192), 1)
    ELSE c \div 2

\* the register after a byte whose exclusive or with the low byte is x
CrcTable ==
    [x \in 0..255 |->
        CrcShift(CrcShift(CrcShift(CrcShift(
        CrcShift(CrcShift(CrcShift(CrcShift(x))))))))]

\* the register after byte b
CrcByte(c, b) ==
    LET t == CrcTable[XorByte(c % 256, b)]
    IN  (t \div 256) * 256 + XorByte(c \div 256, t % 256)

\* the register after the first n bytes of buf
RECURSIVE CrcUpTo(_, _)
CrcUpTo(buf, n) ==
    IF n = 0 THEN 65535 ELSE CrcByte(CrcUpTo(buf, n - 1), buf[n])

\* CRC-16/MODBUS: reflected polynomial A001, initial value FFFF, no final xor
Crc16Modbus(buf) == CrcUpTo(buf, Len(buf))

\* wrapping u32 product acc * 10^exp, and whether a product overflowed
\* (a product that wrapped to 0 stays 0 whatever the remaining exponent)
RECURSIVE Pow10Acc(_, _)
Pow10Acc(acc, exp) ==
    IF acc.val = U32(0, 0) \/ exp = 0 THEN acc
    ELSE LET lo == acc.val.lo * 10
             hi == acc.val.hi * 10 + (lo \div 65536)
         IN  Pow10Acc([val |-> U32(hi % 65536, lo % 65536),
                       ovf |-> acc.ovf \/ hi >= 65536], exp - 1)

\* 10_u32.pow(exp)
Pow10U32(exp) == Pow10Acc([val |-> U32(0, 1), ovf |-> FALSE], exp)

\* AutoReport: magic FF 86, then three big-endian u16 and a checksum byte
AutoReportSwapped(buf) ==
    IF Len(buf) < 9 \/ buf[1] # 255 \/ buf[2] # 134
    THEN [ok |-> FALSE, val |-> <<>>]
    ELSE [ok |-> TRUE,
          val |-> <<BE16(buf[7], buf[8]), BE16(buf[5], buf[6]),
                    BE16(buf[3], buf[4])>>]

AutoReportRead(buf) ==
    IF Len(buf) < 9 \/ buf[1] # 255 \/ buf[2] # 134
    THEN [ok |-> FALSE, val |-> <<>>]
    ELSE [ok |-> TRUE,
          val |-> <<BE16(buf[3], buf[4]),     \* concentration2
                    BE16(buf[5], buf[6]),     \* range
                    BE16(buf[7], buf[8])>>]   \* concentration1

\* QueryParam2: magic FF D7, ty, range (u16), unit, scale, reserved, checksum
QueryParam2Read(buf) ==
    IF Len(buf) < 9 \/ buf[1] # 255 \/ buf[2] # 215
    THEN [ok |-> FALSE, ty |-> 0, unit |-> 0, scale |-> 0]
    ELSE [ok |-> TRUE, ty |-> buf[3], unit |-> buf[6], scale |-> buf[7]]

ECTypeLenient(b) == IF b = 33 THEN "NO2" ELSE "CO"

\* ECType::try_from
ECType(b) == IF b = 25 THEN "CO" ELSE IF b = 33 THEN "NO2" ELSE "Err"

\* ECUnit::try_from
ECUnit(b) ==
    IF b = 2 THEN "PpmMg" ELSE IF b = 4 THEN "Ppbug"
    ELSE IF b = 8 THEN "Vol10g" ELSE "Err"

\* the unit pair TB600BC::new selects for a unit code
TBUnits(u) ==
    IF u = "PpmMg" THEN <<"PPM", "MgPerM3">>
    ELSE IF u = "Ppbug" THEN <<"PPB", "UgPerM3">>
    ELSE <<"PercentVol", "TenGPerM3">>

\* QueryRsp: addr, func, len, Value (len 2: u16, len 4: u32, both
\* big-endian), checksum (u16 little-endian, read and not compared)
QueryRspRead(buf) ==
    LET bad == [ok |-> FALSE, len |-> 0, val |-> U32(0, 0), checksum |-> 0]
    IN  IF Len(buf) < 3 THEN bad
        ELSE IF buf[3] = 2 /\ Len(buf) >= 7
        THEN [ok |-> TRUE, len |-> 2, val |-> U32(0, BE16(buf[4], buf[5])),
              checksum |-> LE16(buf[6], buf[7])]
        ELSE IF buf[3] = 4 /\ Len(buf) >= 9
        THEN [ok |-> TRUE, len |-> 4,
              val |-> U32(BE16(buf[4], buf[5]), BE16(buf[6], buf[7])),
              checksum |-> LE16(buf[8], buf[9])]
        ELSE bad

\* RydasonType::try_from
RydasonType(v) == IF v = 1 THEN "CO" ELSE "Err"

\* RydasonUnit::try_from
RydasonUnit(v) == IF v = 1 THEN "PPB" ELSE IF v = 2 THEN "PPM" ELSE "Err"

(* ---------------- device drivers: operations --------------------------- *)
\* overflow checks of the build: on ("debug") or off ("release")
Builds == {"debug", "release"}

\* replies of a TB600B_C device to the parameter query D7
ParamReplies ==
    {<<255, 215, ty, 0, 100, unit, scale, 0, 0>> :
        ty \in {25, 33, 26}, unit \in {2, 4, 8, 3},
        scale \in {0, 48, 144, 160, 240}}
    \cup {<<255, 134, 25, 0, 100, 2, 48, 0, 0>>}

\* frames a TB600B_C device pushes in auto-report mode
AutoFrames ==
    {<<255, 134, 37, 188, 3, 232, 32, 208, 190>>,
     <<255, 134, 0, 1, 0, 2, 0, 3, 250>>,
     <<255, 134, 255, 255, 0, 0, 1, 0, 0>>,
     <<255, 135, 37, 188, 3, 232, 32, 208, 190>>,
     <<254, 134, 37, 188, 3, 232, 32, 208, 190>>}

\* a response frame as a Modbus device builds it, CRC included
RspFrame(addr, len, value) ==
    LET body == <<addr, 3, len>> \o value
        crc  == Crc16Modbus(body)
    IN  body \o <<crc % 256, crc \div 256>>

\* the frame with byte i changed on the wire
Corrupt(frame, i) == [frame EXCEPT ![i] = (frame[i] + 1) % 256]

\* 7-byte replies to the type, unit and scale queries
Replies7 ==
    {RspFrame(1, 2, <<0, v>>) : v \in {0, 1, 2, 3, 9, 10, 32}}
    \cup {Corrupt(RspFrame(1, 2, <<0, 1>>), i) : i \in 1..7}
    \cup {SubSeq(RspFrame(1, 4, <<0, 0, 0, 1>>), 1, 7)}

\* 9-byte replies to the measured-value query
Replies9 ==
    {RspFrame(1, 4, v) : v \in {<<0, 0, 0, 1>>, <<0, 1, 226, 64>>,
                                <<255, 255, 255, 255>>}}
    \cup {Corrupt(RspFrame(1, 4, <<0, 1, 226, 64>>), i) : i \in 1..9}
    \cup {RspFrame(1, 2, <<0, 5>>) \o <<0, 0>>}

\* a transport call that fails returns no bytes
IoError == <<>>

SensorChannel(ty, unit) == [ty |-> ty, unit |-> unit]

GetSensorType(channels) == [i \in 1..Len(channels) |-> channels[i].ty]

GetSensorUnit(channels) == [i \in 1..Len(channels) |-> channels[i].unit]

SensorDataFirstUnit(types, units, values) ==
    [i \in 1..Len(values) |->
        [ty |-> types[i], value |-> values[i], unit |-> units[1]]]

\* the SensorData vector of one sample: reading i is value i with the
\* type and unit of channel i
SensorData(types, units, values) ==
    [i \in 1..Len(values) |->
        [ty |-> types[i], value |-> values[i], unit |-> units[i]]]

DrvFail(pc, replies) ==
    /\ drvPc' = pc
    /\ drvNewIo' = replies
    /\ UNCHANGED <<drvType, drvScale, drvChannels>>

DrvReady(ty, scale, channels, replies) ==
    /\ drvPc' = "ready"
    /\ drvType' = ty
    /\ drvScale' = scale
    /\ drvChannels' = channels
    /\ drvNewIo' = replies

\* TB600BC::new
DrvNewTB ==
    /\ hw = "EC_TB600BC"
    /\ drvPc = "new"
    /\ \E open \in BOOLEAN, reply \in ParamReplies \cup {IoError},
          build \in Builds :
        LET param == QueryParam2Read(reply)
            ty    == ECType(param.ty)
            unit  == ECUnit(param.unit)
            pow   == Pow10U32(param.scale \div 16)
            units == TBUnits(unit)
        IN  IF ~open THEN DrvFail("exited", <<>>)
            ELSE IF ~param.ok \/ ty = "Err" \/ unit = "Err"
            THEN DrvFail("failed", <<reply>>)
            ELSE IF pow.ovf /\ build = "debug"
            THEN DrvFail("panicked", <<reply>>)
            ELSE DrvReady(ty, pow.val,
                          <<SensorChannel(ty, units[1]),
                            SensorChannel(ty, units[2])>>, <<reply>>)
    /\ UNCHANGED <<drvIo, drvSample, pipeVars>>

\* a read that falls back to divisor 1 when the frame does not decode
DrvReadAutoReportRescaling ==
    /\ hw = "EC_TB600BC"
    /\ drvPc = "ready"
    /\ \E frame \in AutoFrames \cup {IoError} :
        LET data == AutoReportRead(frame)
        IN  /\ drvIo' = [op |-> "auto", bytes |-> frame, ok |-> data.ok,
                         val |-> data.val]
            /\ drvScale' = IF data.ok THEN drvScale ELSE U32(0, 1)
    /\ drvSample' = <<>>
    /\ UNCHANGED <<drvPc, drvType, drvChannels, drvNewIo, pipeVars>>

\* read_auto_report_data and the sample built from its result
DrvReadAutoReport ==
    /\ hw = "EC_TB600BC"
    /\ drvPc = "ready"
    /\ \E frame \in AutoFrames \cup {IoError} :
        LET data == AutoReportRead(frame)
            c1   == [raw |-> U32(0, data.val[3]), scale |-> drvScale]
            c2   == [raw |-> U32(0, data.val[1]), scale |-> drvScale]
        IN  /\ drvIo' = [op |-> "auto", bytes |-> frame, ok |-> data.ok,
                         val |-> data.val]
            /\ drvSample' = IF data.ok
                            THEN SensorData(GetSensorType(drvChannels),
                                            GetSensorUnit(drvChannels),
                                            <<c1, c2>>)
                            ELSE <<>>
    /\ UNCHANGED <<drvPc, drvType, drvScale, drvChannels, drvNewIo, pipeVars>>

\* query: the reply is decoded as a QueryRsp
Query(reply) == QueryRspRead(reply)

\* as_u16: only a 16-bit Value
AsU16(rsp) == [ok |-> rsp.ok /\ rsp.len = 2, v |-> rsp.val.lo]

\* a conversion that widens a 16-bit Value instead of failing
AsU32Widening(rsp) == [ok |-> rsp.ok, v |-> rsp.val]

\* as_u32: only a 32-bit Value
AsU32(rsp) == [ok |-> rsp.ok /\ rsp.len = 4, v |-> rsp.val]

ReadType(reply) ==
    LET v == AsU16(Query(reply)) IN IF v.ok THEN RydasonType(v.v) ELSE "Err"

ReadUnit(reply) ==
    LET v == AsU16(Query(reply)) IN IF v.ok THEN RydasonUnit(v.v) ELSE "Err"

ReadScale(reply) ==
    LET v == AsU16(Query(reply))
    IN  [ok |-> v.ok, pow |-> Pow10U32(IF v.ok THEN v.v ELSE 0)]

\* Rydason::new: open, then read_type, read_unit, read_scale
DrvNewRydason ==
    /\ hw = "RYDASON"
    /\ drvPc = "new"
    /\ \E open \in BOOLEAN, build \in Builds,
          r1 \in Replies7 \cup {IoError}, r2 \in Replies7 \cup {IoError},
          r3 \in Replies7 \cup {IoError} :
        LET ty    == ReadType(r1)
            unit  == ReadUnit(r2)
            scale == ReadScale(r3)
        IN  IF ~open THEN DrvFail("failed", <<>>)
            ELSE IF ty = "Err" THEN DrvFail("failed", <<r1>>)
            ELSE IF unit = "Err" THEN DrvFail("failed", <<r1, r2>>)
            ELSE IF ~scale.ok THEN DrvFail("failed", <<r1, r2, r3>>)
            ELSE IF scale.pow.ovf /\ build = "debug"
            THEN DrvFail("panicked", <<r1, r2, r3>>)
            ELSE DrvReady(ty, scale.pow.val, <<SensorChannel(ty, unit)>>,
                          <<r1, r2, r3>>)
    /\ UNCHANGED <<drvIo, drvSample, pipeVars>>

\* read_measured_value and the sample built from its result
DrvReadMeasuredValue ==
    /\ hw = "RYDASON"
    /\ drvPc = "ready"
    /\ \E reply \in Replies9 \cup {IoError} :
        LET v == AsU32(Query(reply))
        IN  /\ drvIo' = [op |-> "query", bytes |-> reply, ok |-> v.ok,
                         val |-> IF v.ok THEN <<v.v.hi, v.v.lo>> ELSE <<>>]
            /\ drvSample' = IF v.ok
                            THEN SensorData(GetSensorType(drvChannels),
                                            GetSensorUnit(drvChannels),
                                            <<[raw |-> v.v,
                                               scale |-> drvScale]>>)
                            ELSE <<>>
    /\ UNCHANGED <<drvPc, drvType, drvScale, drvChannels, drvNewIo, pipeVars>>

\* one driver, constructed once and then read any number of times
DrvInit == PipeInit /\ DrvIdle("new")

DrvNext ==
    \/ DrvNewTB
    \/ DrvReadAutoReport
    \/ DrvNewRydason
    \/ DrvReadMeasuredValue

DrvSpec == DrvInit /\ [][DrvNext]_vars

(* ------------------------------ helpers ------------------------------- *)
Last(q) == q[Len(q)]

IsPrefix(p, q) == Len(p) <= Len(q) /\ \A i \in 1..Len(p) : p[i] = q[i]

SampleIds(q) == {q[i].id : i \in {j \in 1..Len(q) : q[j].kind = "Sample"}}

RowIds(q) == {q[i].id : i \in {j \in 1..Len(q) : q[j].kind = "row"}}

AcqLive(s) == acqPc[s] \notin {"idle", "done"}

LogLive(s) == logPc[s] \notin {"none", "done", "failed"}

\* both threads of session s have returned (or the process is gone)
WorkersDone(s) == ~procAlive \/ (~AcqLive(s) /\ ~LogLive(s))

(* ------------------------------- claims ------------------------------- *)
\* C1: once stop() was called on the handle, the acquisition thread and the
\* logger thread of every session spawned before that call eventually
\* return, whatever the caller does afterwards (it need not call try_recv).
StopTerminatesWorkers == \A s \in Sessions : stopSeen[s] ~> WorkersDone(s)

\* C2: after stop() was called, the acquisition loop of a running session
\* broadcasts at most one further sample.
AtMostOneSampleAfterStop == \A s \in Sessions : afterStop[s] <= 1

\* C3: while a session of the handle is active (spawned, not stopped, not
\* returned) a start() call spawns nothing, so no second loop appears.
StartRejectedWhileActive ==
    [][(\E s \in Sessions : AcqLive(s) /\ ~stopSeen[s]) => started' = started]_vars

\* C4: the token is never set back from true to false while a worker thread
\* of a session is still alive.
TokenNeverReset ==
    [][(flag /\ ~flag') => \A s \in Sessions : WorkersDone(s)]_vars

\* C5: after a read call failed, the loop makes no further read call and
\* broadcasts no sample; all it can still do is publish a status and return.
FailFast ==
    /\ [](\A s \in Sessions : readFailed[s] =>
             acqPc[s] \in (IF hw = "EC_TB600BC" THEN {"bcast_err", "done"}
                                                ELSE {"done"}))
    /\ [][\A s \in Sessions : readFailed[s] =>
             /\ reads'[s] = reads[s]
             /\ SampleIds(pub'[s]) = SampleIds(pub[s])
             /\ acqPc'[s] \in {"bcast_err", "done"}]_vars

FailFastWitness ==
    \E s \in Sessions :
        /\ readFailed[s]
        /\ acqPc[s] = "done"
        /\ reads[s] >= 2
        /\ SampleIds(pub[s]) # {}

\* C6: when a read call failed and the loop has returned, the last message
\* on the bus is the status message carrying that read error.
ReadErrorPublished ==
    \A s \in Sessions :
        (readFailed[s] /\ acqPc[s] = "done") =>
            /\ pub[s] # <<>>
            /\ Last(pub[s]).kind = "Status"
            /\ Last(pub[s]).text = ReadFailText

\* C7: when driver construction or the mode switch failed, the process and
\* the other sessions live on, no read was made, no sample was broadcast, no
\* logger was spawned, and the loop returns after publishing the error as
\* the last status message.
InitFailureIsStatus ==
    \A s \in Sessions :
        initErr[s] # "none" =>
            /\ procAlive
            /\ acqPc[s] \in {"bcast_err", "done"}
            /\ reads[s] = 0
            /\ SampleIds(pub[s]) = {}
            /\ logPc[s] = "none"
            /\ acqPc[s] = "done" =>
                   /\ pub[s] # <<>>
                   /\ Last(pub[s]).kind = "Status"
                   /\ Last(pub[s]).text \in ErrorTexts

\* C8: the two readers added to the bus before start() receive the same
\* messages in the same order: what each has received is a prefix of what
\* was broadcast, and readers that have received equally many have received
\* the same sequence.
SubscribersAgree ==
    /\ IsPrefix(rxGot, pub[1])
    /\ IsPrefix(rx2Got, pub[1])
    /\ IsPrefix(rxGot, rx2Got) \/ IsPrefix(rx2Got, rxGot)
    /\ (rxHead = Len(pub[1]) /\ rx2Head = Len(pub[1])) => rxGot = rx2Got

SubscribersAgreeWitness ==
    /\ rxGot = rx2Got
    /\ Len(rxGot) >= 3
    /\ SampleIds(rxGot) # {}
    /\ \E i \in 1..Len(rxGot) : rxGot[i].kind = "Status"
    /\ closed[1]

\* C9: the logger's reader is added to the bus before the first read call,
\* so every sample on the bus was broadcast after the logger had joined.
LoggerSubscribedBeforeFirstRead ==
    \A s \in Sessions :
        /\ (reads[s] > 0 \/ acqPc[s] \in {"read", "bcast_sample"}) =>
               logPc[s] # "none"
        /\ \A i \in 1..Len(pub[s]) :
               pub[s][i].kind = "Sample" => (logPc[s] # "none" /\ i > logJoin[s])

LoggerSubscribedWitness ==
    \E s \in Sessions :
        /\ reads[s] > 0
        /\ SampleIds(pub[s]) # {}
        /\ logJoin[s] > 0

\* C10: once both threads of a session have returned without an I/O error
\* in the logger, every sample broadcast in the session is a row of the CSV.
EverySampleLogged ==
    \A s \in Sessions :
        (acqPc[s] = "done" /\ logPc[s] = "done") =>
            SampleIds(pub[s]) \subseteq RowIds(csv[s])

\* the samples the logger of session s has taken from its reader, in order
ConsumedSamples(s) ==
    SelectSeq(SubSeq(pub[s], logJoin[s] + 1, logHead[s]),
              LAMBDA m : m.kind = "Sample")

\* C11: the CSV file is one header line followed by one data line per sample
\* the logger consumed, in arrival order (the last consumed sample may be
\* missing only when its write failed); the header has one column per
\* channel and every data line has as many value fields.
CsvWellFormed ==
    \A s \in Sessions :
        /\ logPc[s] \in {"none", "create"} => csv[s] = <<>>
        /\ csv[s] # <<>> =>
            /\ csv[s][1].kind = "header"
            /\ csv[s][1].n = NumChannels(hw)
            /\ \A i \in 2..Len(csv[s]) :
                   /\ csv[s][i].kind = "row"
                   /\ csv[s][i].n = csv[s][1].n
                   /\ i - 1 <= Len(ConsumedSamples(s))
                   /\ csv[s][i].id = ConsumedSamples(s)[i - 1].id
            /\ \/ Len(csv[s]) - 1 = Len(ConsumedSamples(s))
               \/ /\ logPc[s] = "failed"
                  /\ Len(csv[s]) = Len(ConsumedSamples(s))

CsvWellFormedWitness ==
    \E s \in Sessions :
        /\ Len(csv[s]) = 3
        /\ csv[s][2].id = 1
        /\ csv[s][3].id = 2
        /\ logPc[s] = "done"

\* C13: try_recv can always be called and returns at once; one call hands
\* out at most one message, none when nothing is pending, and the messages
\* handed out so far are the first ones broadcast, in broadcast order.
PollNonBlocking ==
    /\ [](procAlive => ENABLED TryRecv)
    /\ [](IsPrefix(rxGot, pub[1]) /\ rxHead = Len(rxGot))
    /\ [][/\ Len(rxGot') <= Len(rxGot) + 1
          /\ IsPrefix(rxGot, rxGot')
          /\ rxHead = Len(pub[1]) => rxGot' = rxGot]_vars

PollNonBlockingWitness ==
    /\ Len(rxGot) >= 2
    /\ Len(pub[1]) >= Len(rxGot) + 2

\* C14: no live reader is ever more than BusLen messages behind the
\* producer, a message is broadcast only when every live reader has room,
\* and what was broadcast is never changed or reordered afterwards.
BusBounded ==
    /\ [](\A s \in Sessions : \A h \in ReaderHeads(s) :
              Len(pub[s]) - h <= BusLen)
    /\ [][\A s \in Sessions :
              /\ IsPrefix(pub[s], pub'[s])
              /\ Len(pub'[s]) <= Len(pub[s]) + 1
              /\ pub'[s] # pub[s] =>
                     \A h \in ReaderHeads(s) : Len(pub[s]) - h < BusLen]_vars

BusBoundedWitness ==
    \E s \in Sessions :
        /\ acqPc[s] \in {"bcast_sample", "bcast_err"}
        /\ \E h \in ReaderHeads(s) : Len(pub[s]) - h = BusLen

\* C19: the step that sets the token changes nothing else of the handle or
\* of the sessions (model, readers, pending messages, threads, file), and
\* stop() can be called whatever the worker threads are doing.
StopOnlySetsFlag ==
    /\ [](procAlive => ENABLED Stop)
    /\ [][(flag' /\ ~flag) =>
              UNCHANGED <<hw, started, procAlive, acqPc, pending, reads,
                          readFailed, initErr, pub, closed, logVars,
                          callerVars>>]_vars

StopOnlySetsFlagWitness ==
    /\ flag
    /\ stopSeen[1]
    /\ AcqLive(1)
    /\ LogLive(1)
    /\ rxHead < Len(pub[1])

\* C20: when construction succeeded, the first message on the bus is the
\* "<model> init" status: it is there before switch_mode (the initialize
\* step) runs and before any sample.
FirstMessageIsInit ==
    \A s \in Sessions :
        /\ (initErr[s] \notin {"open", "query"} /\ pub[s] # <<>>) =>
               pub[s][1] = Status(InitText(hw))
        /\ (\/ acqPc[s] \in {"bcast_switch", "start_log", "check", "read",
                             "bcast_sample"}
            \/ initErr[s] = "switch"
            \/ reads[s] > 0) =>
               (pub[s] # <<>> /\ pub[s][1] = Status(InitText(hw)))

FirstMessageIsInitWitness ==
    \E s \in Sessions :
        /\ Len(pub[s]) >= 3
        /\ pub[s][1] = Status(InitText(hw))
        /\ SampleIds(pub[s]) # {}

CrcMatches(frame) ==
    /\ Len(frame) > 2
    /\ LE16(frame[Len(frame) - 1], frame[Len(frame)])
         = Crc16Modbus(SubSeq(frame, 1, Len(frame) - 2))

\* C15: a response frame whose trailing CRC does not match its body is
\* never decoded: every reply a query accepted, at construction or at a
\* read, carries the CRC of its body.
CrcMismatchRejected ==
    /\ (drvIo.op = "query" /\ drvIo.ok) => CrcMatches(drvIo.bytes)
    /\ (hw = "RYDASON" /\ drvPc = "ready") =>
        \A i \in 1..Len(drvNewIo) : CrcMatches(drvNewIo[i])

\* C16: a 9-byte frame FF 86 .. decodes to concentration2 = bytes 2..3,
\* range = bytes 4..5, concentration1 = bytes 6..7 (offsets from 0), all
\* big-endian; a frame with another prefix does not decode.
AutoReportDecoded ==
    /\ drvIo.bytes = <<255, 134, 37, 188, 3, 232, 32, 208, 190>> =>
        drvIo.ok /\ drvIo.val = <<9660, 1000, 8400>>
    /\ (drvIo.op = "auto" /\ Len(drvIo.bytes) = 9) =>
        LET b == drvIo.bytes
        IN  IF b[1] = 255 /\ b[2] = 134
            THEN /\ drvIo.ok
                 /\ drvIo.val = <<b[3] * 256 + b[4], b[5] * 256 + b[6],
                                  b[7] * 256 + b[8]>>
                 /\ drvSample[1].value.raw = U32(0, b[7] * 256 + b[8])
                 /\ drvSample[2].value.raw = U32(0, b[3] * 256 + b[4])
            ELSE ~drvIo.ok /\ drvSample = <<>>

AutoReportDecodedWitness ==
    /\ drvIo.op = "auto"
    /\ drvIo.bytes = <<255, 134, 37, 188, 3, 232, 32, 208, 190>>
    /\ drvIo.ok
    /\ drvIo.val = <<9660, 1000, 8400>>

\* the exponent the device reported at construction
ReportedExponent ==
    IF hw = "EC_TB600BC" THEN drvNewIo[1][7] \div 16
    ELSE BE16(drvNewIo[3][4], drvNewIo[3][5])

\* u is exactly 10^exp: dividing by ten exp times leaves 1, no remainder
RECURSIVE IsPow10(_, _)
IsPow10(u, exp) ==
    IF exp = 0 THEN u = U32(0, 1)
    ELSE LET rest == (u.hi % 10) * 65536 + u.lo
         IN  /\ u # U32(0, 0)
             /\ rest % 10 = 0
             /\ IsPow10(U32(u.hi \div 10, rest \div 10), exp - 1)

\* C17: whatever exponent the device reports, construction computes the
\* divisor 10^exponent: the computation never overflows, and the divisor
\* is never a wrapped value nor 0.
DivisorIsPowerOfTen ==
    (/\ drvPc \in {"ready", "panicked"}
     /\ Len(drvNewIo) = (IF hw = "EC_TB600BC" THEN 1 ELSE 3)) =>
        /\ drvPc = "ready"
        /\ drvScale # U32(0, 0)
        /\ IsPow10(drvScale, ReportedExponent)

\* C18: TB600BC construction fails when the type byte is none of 19, 21
\* (hex) or the unit byte none of 02, 04, 08; when it succeeds the driver
\* has two channels of the gas type of the type byte, in the two units of
\* the pair the unit byte selects.
TBNewChecksCodes ==
    (hw = "EC_TB600BC" /\ Len(drvNewIo) = 1 /\ Len(drvNewIo[1]) = 9) =>
        LET ty   == drvNewIo[1][3]
            unit == drvNewIo[1][6]
        IN  /\ (ty \notin {25, 33} \/ unit \notin {2, 4, 8}) =>
                drvPc = "failed" /\ drvChannels = <<>>
            /\ drvPc = "ready" =>
                /\ Len(drvChannels) = 2
                /\ \A i \in 1..2 :
                    drvChannels[i].ty = (IF ty = 25 THEN "CO" ELSE "NO2")
                /\ <<drvChannels[1].unit, drvChannels[2].unit>>
                     = (IF unit = 2 THEN <<"PPM", "MgPerM3">>
                        ELSE IF unit = 4 THEN <<"PPB", "UgPerM3">>
                        ELSE <<"PercentVol", "TenGPerM3">>)

TBNewChecksCodesWitness ==
    /\ hw = "EC_TB600BC"
    /\ drvPc = "ready"
    /\ drvNewIo[1][3] = 33
    /\ drvNewIo[1][6] = 8
    /\ drvChannels = <<SensorChannel("NO2", "PercentVol"),
                       SensorChannel("NO2", "TenGPerM3")>>

\* C21: a response value is interpreted by its declared byte length: the
\* measurement read succeeds exactly on a length-4 reply, with the 32-bit
\* big-endian value of its four bytes, and fails on a 16-bit reply or any
\* other length, producing no sample; a construction query whose reply
\* declares a length other than 2 fails construction at that query, and
\* an accepted construction takes the 16-bit values as sent.
ValueByDeclaredLength ==
    /\ (drvIo.op = "query" /\ Len(drvIo.bytes) = 9) =>
        LET b == drvIo.bytes
        IN  /\ drvIo.ok <=> b[3] = 4
            /\ drvIo.ok =>
                /\ drvIo.val = <<b[4] * 256 + b[5], b[6] * 256 + b[7]>>
                /\ drvSample[1].value.raw
                     = U32(b[4] * 256 + b[5], b[6] * 256 + b[7])
            /\ ~drvIo.ok => drvSample = <<>>
    /\ hw = "RYDASON" =>
        \A i \in 1..Len(drvNewIo) :
            (drvNewIo[i] # IoError /\ drvNewIo[i][3] # 2) =>
                drvPc = "failed" /\ i = Len(drvNewIo)
    /\ (hw = "RYDASON" /\ drvPc = "ready") =>
        /\ drvNewIo[1][4] * 256 + drvNewIo[1][5] = 1
        /\ drvNewIo[2][4] * 256 + drvNewIo[2][5] \in {1, 2}

ValueByDeclaredLengthWitness ==
    /\ drvIo.op = "query"
    /\ Len(drvIo.bytes) = 9
    /\ drvIo.bytes[3] = 2
    /\ ~drvIo.ok
    /\ drvSample = <<>>

\* C22: once construction has succeeded, no read changes the driver's
\* divisor or its channel list, whether the read succeeds or fails.
ReadsKeepScaleAndChannels ==
    [][drvPc = "ready" =>
        /\ drvPc' = "ready"
        /\ drvScale' = drvScale
        /\ drvChannels' = drvChannels]_vars

ReadsKeepScaleAndChannelsWitness ==
    /\ drvPc = "ready"
    /\ drvIo.op = "auto"
    /\ ~drvIo.ok
    /\ drvScale = U32(0, 1000)
    /\ Len(drvChannels) = 2

(* ------------------------ logger and poll claims ----------------------- *)
\* C23: the logger thread terminates only when it observes the token
\* true: a logger that stops running does so with the token set by a
\* stop() call, and once the acquisition thread has returned and the
\* token is true the logger terminates.
LoggerEndsOnlyOnFlag ==
    /\ [][\A s \in Sessions :
            (LogLive(s) /\ ~LogLive(s)') => (flag /\ stopSeen[s])]_vars
    /\ \A s \in Sessions : (closed[s] /\ flag /\ LogLive(s)) ~> ~LogLive(s)

\* the sample messages published in session s, in order
PublishedSamples(s) == SelectSeq(pub[s], LAMBDA m : m.kind = "Sample")

\* the data rows of the CSV file of session s, in order
DataRows(s) == SelectSeq(csv[s], LAMBDA r : r.kind # "header")

\* C24: at every moment the data rows of the CSV file are, one-to-one and
\* in order, a prefix of the samples published in the session; a status
\* message is never a row.
RowsArePrefixOfSamples ==
    \A s \in Sessions :
        /\ Len(DataRows(s)) <= Len(PublishedSamples(s))
        /\ \A i \in 1..Len(DataRows(s)) :
            DataRows(s)[i] = Row(PublishedSamples(s)[i])

RowsArePrefixOfSamplesWitness ==
    /\ Len(DataRows(1)) = 2
    /\ Len(PublishedSamples(1)) = 2
    /\ Len(pub[1]) > 2
    /\ DataRows(1)[2].id = PublishedSamples(1)[2].id

\* C25: every message published on the bus of the handle is eventually
\* returned by try_recv when the caller keeps polling, also after the
\* acquisition thread has returned and dropped the Bus; what try_recv
\* returned is always the front of what was published.
EveryMessagePolled ==
    /\ [](IsPrefix(rxGot, pub[1]))
    /\ \A n \in 1..(MaxReads + 3) :
        (Len(pub[1]) >= n) ~> (Len(rxGot) >= n)

EveryMessagePolledWitness ==
    /\ closed[1]
    /\ readFailed[1]
    /\ rxGot = pub[1]
    /\ Last(rxGot) = Status(ReadFailText)
====
